---------------------------- MODULE Spec2Model ----------------------------
(***************************************************************************)
(* A model of the Adafruit SPI FRAM driver (Adafruit_FRAM_SPI.cpp/.h).     *)
(*                                                                         *)
(* The driver state is the pair (_nAddressSizeBytes, _dev_idx).  Every     *)
(* public method is one action.  What a method puts on the bus is kept in  *)
(* `bus` (the events of the last call), what it was called with and what   *)
(* it returned in `lastOp`.  The FRAM chip at the other end of the bus is  *)
(* `mem` (cells written so far) and `wel` (its write-enable latch).        *)
(***************************************************************************)
EXTENDS Integers, Sequences, FiniteSets

VARIABLES
    nAddressSizeBytes,  \* Adafruit_FRAM_SPI::_nAddressSizeBytes (uint8_t)
    dev_idx,            \* Adafruit_FRAM_SPI::_dev_idx (int), -1 = no device
    lastOp,             \* the last call: [op, addr, pre, data, ret]
    bus,                \* bus events of the last call, in order
    csAsserted,         \* chip select is asserted (low) between calls
    mem,                \* the chip: cells written so far (address -> byte)
    wel,                \* the chip: write-enable latch
    latched,            \* the chip's latch as it was when the last call began
    followed            \* the block write the last call came right after

vars == <<nAddressSizeBytes, dev_idx, lastOp, bus, csAsserted, mem, wel, latched, followed>>

-----------------------------------------------------------------------------
(* Bounds of the model.                                                    *)

\* longest payload of a block write or read
MaxCount == 2

-----------------------------------------------------------------------------
(* Operation codes, Adafruit_FRAM_SPI.h opcodes_e.                         *)

OPCODE_WREN == \b0110
OPCODE_WRDI == \b0100
OPCODE_RDSR == \b0101
OPCODE_WRSR == \b0001
OPCODE_READ == \b0011
OPCODE_WRITE == \b0010
OPCODE_RDID == \b10011111
OPCODE_SLEEP == \b10111001

-----------------------------------------------------------------------------
(* The table of supported devices; the code indexes it from 0.             *)

Dev(m, p, s, sl) == [manufID |-> m, prodID |-> p, size |-> s, support_sleep |-> sl]

supported_devices ==
    << Dev(\h04, \h0101, 2 * 1024, FALSE),    \* MB85RS16
       Dev(\h04, \h0302, 8 * 1024, FALSE),    \* MB85RS64V
       Dev(\h04, \h2303, 8 * 1024, TRUE),     \* MB85RS64T
       Dev(\h04, \h2503, 32 * 1024, TRUE),    \* MB85RS256TY
       Dev(\h04, \h2703, 128 * 1024, TRUE),   \* MB85RS1MT
       Dev(\h04, \h4803, 256 * 1024, TRUE),   \* MB85RS2MTA
       Dev(\h04, \h2803, 256 * 1024, TRUE),   \* MB85RS2MT
       Dev(\h04, \h4903, 512 * 1024, TRUE),   \* MB85RS4MT
       Dev(\h04, \h490B, 512 * 1024, TRUE),   \* MB85RS4MTY
       Dev(\h7F, \h7F7F, 32 * 1024, FALSE),   \* FM25V02
       Dev(\hAE, \h8305, 8 * 1024, FALSE) >>  \* MR45V064B

\* sizeof(_supported_devices) / sizeof(_supported_devices[0])
NumDevices == Len(supported_devices)

\* _supported_devices[i], i counted from 0 as in the code
device(i) == supported_devices[i + 1]

\* the first index whose two IDs match, -1 if there is none
get_supported_idx(manufID, prodID) ==
    LET hits == { i \in 0..(NumDevices - 1) :
                    /\ manufID = device(i).manufID
                    /\ prodID = device(i).prodID }
    IN  IF hits = {} THEN -1
        ELSE CHOOSE i \in hits : \A j \in hits : i <= j

-----------------------------------------------------------------------------
(* Fixed-width arithmetic.                                                 *)

\* (uint8_t)x
U8(x) == x % 256
\* x >> n on an unsigned value
Shr(x, n) == x \div (2 ^ n)

-----------------------------------------------------------------------------
(* The bus.  An event is [e, b]: select asserted, a byte sent, a byte      *)
(* received, select released, a delay of b microseconds.                   *)

Ev(e, b) == [e |-> e, b |-> b]
AssertCS == Ev("assert", 0)
DeassertCS == Ev("release", 0)
Tx(b) == Ev("tx", b)
Rx(b) == Ev("rx", b)
Delay(us) == Ev("delay", us)

Prefix(s, n) == SubSeq(s, 1, IF n < Len(s) THEN n ELSE Len(s))
TxAll(s) == [i \in 1..Len(s) |-> Tx(s[i])]
RxAll(s) == [i \in 1..Len(s) |-> Rx(s[i])]

\* a transfer of n bytes fails at byte failAt (counted from 0) when failAt
\* names one of them; -1 and positions past the end mean no failure
Fails(n, failAt) == failAt >= 0 /\ failAt < n

\* Adafruit_SPIDevice::write(buffer, len, prefix, prefix_len): one
\* transaction that sends the prefix, then the buffer.  The transfer stops
\* at byte failAt, when there is one; select is released either way.
spi_write(buffer, prefix, failAt) ==
    LET out == prefix \o buffer
        n == IF Fails(Len(out), failAt) THEN failAt ELSE Len(out)
    IN  [ ret |-> ~Fails(Len(out), failAt),
          bus |-> <<AssertCS>> \o TxAll(Prefix(out, n)) \o <<DeassertCS>> ]

\* Adafruit_SPIDevice::write_then_read(wbuf, wlen, rbuf, rlen): one
\* transaction that sends wbuf, then receives rlen bytes (here: resp).
spi_write_then_read(wbuf, resp, failAt) ==
    LET total == Len(wbuf) + Len(resp)
        n == IF Fails(total, failAt) THEN failAt ELSE total
        nr == IF n > Len(wbuf) THEN n - Len(wbuf) ELSE 0
    IN  [ ret |-> ~Fails(total, failAt),
          rbuf |-> Prefix(resp, nr),
          bus |-> <<AssertCS>> \o TxAll(Prefix(wbuf, n))
                    \o RxAll(Prefix(resp, nr)) \o <<DeassertCS>> ]

\* select after the events of one call
SelectAfter(cs, events) ==
    LET marks == { i \in 1..Len(events) : events[i].e \in {"assert", "release"} }
    IN  IF marks = {} THEN cs
        ELSE events[CHOOSE i \in marks : \A j \in marks : j <= i].e = "assert"

-----------------------------------------------------------------------------
(* Inputs.                                                                 *)

\* addresses the callers pass (uint32_t; the model stays below 2^31)
Addrs == { \h1234, \h123456, \h7F123456 }

\* payload bytes; \h06 is also the WREN opcode
PayloadBytes == { \hA5, \h06 }

\* the payloads of block transfers: a pattern of every length 0..MaxCount
PatternA(n) == [i \in 1..n |-> IF i % 2 = 1 THEN \hA5 ELSE \h06]
Payloads == { PatternA(n) : n \in 0..MaxCount }

\* what a chip answers to RDID: the Fujitsu parts and the Cypress part send
\* the continuation code in the second byte, the Lapis part does not
IdResponse(i) ==
    LET d == device(i)
    IN  IF d.manufID = \hAE
        THEN << d.manufID, Shr(d.prodID, 8), U8(d.prodID), 0 >>
        ELSE << d.manufID, \h7F, Shr(d.prodID, 8), U8(d.prodID) >>

IdResponses ==
    { IdResponse(i) : i \in 0..(NumDevices - 1) }
        \cup { << \h04, \h7F, \h00, \h0B >>,      \* Fujitsu, not in the table
               << \hC2, \h22, \h00, \h00 >>,      \* not in the table
               << \hFF, \hFF, \hFF, \hFF >> }     \* nothing attached

\* what an uninitialized (manufID, prodID) pair may hold
StackGarbage == { << \h04, \h0302 >>, << \h00, \h0000 >> }

\* what an uninitialized uint8_t may hold
GarbageBytes == { \h00, \hA5 }

\* arguments of setAddressSize and begin
AddressSizes == { 2, 3, 4 }

\* where a transfer may fail: nowhere, after the opcode, after four bytes
FailPoints == { -1, 1, 4 }

-----------------------------------------------------------------------------
(* The driver.                                                             *)

\* the record of a call: its name; addr, its address or scalar argument;
\* pre, what its output parameters held before it; data, the bytes written
\* or the values it handed back; ret, its bool result (for a call that
\* returns a value or nothing: whether its transfer succeeded)
OpPre(op, addr, pre, data, ret) ==
    [op |-> op, addr |-> addr, pre |-> pre, data |-> data, ret |-> ret]
Op(op, addr, data, ret) == OpPre(op, addr, << >>, data, ret)

\* a call leaves the driver's own state as it was
DriverUnchanged == UNCHANGED <<nAddressSizeBytes, dev_idx>>

\* what every call records: the call, its bus events, select afterwards
Called(op, events) ==
    /\ lastOp' = op
    /\ bus' = events
    /\ csAsserted' = SelectAfter(csAsserted, events)

\* Adafruit_FRAM_SPI::init, run by both constructors
init ==
    /\ nAddressSizeBytes = 0
    /\ dev_idx = -1

\* the address bytes of a frame: buffer[i++] = (uint8_t)(addr >> 24) if the
\* size is above 3, (uint8_t)(addr >> 16) if above 2, then always
\* (uint8_t)(addr >> 8) and (uint8_t)(addr & 0xFF)
write8_buffer(size, addr, value) ==
    << OPCODE_WRITE >>
        \o (IF size > 3 THEN << U8(Shr(addr, 24)) >> ELSE << >>)
        \o (IF size > 2 THEN << U8(Shr(addr, 16)) >> ELSE << >>)
        \o << U8(Shr(addr, 8)), U8(addr % 256), value >>

\* write's prebuf with the two low address bytes in the wrong order
write_prebufLowFirst(size, addr) ==
    << OPCODE_WRITE >>
        \o (IF size > 3 THEN << U8(Shr(addr, 24)) >> ELSE << >>)
        \o (IF size > 2 THEN << U8(Shr(addr, 16)) >> ELSE << >>)
        \o << U8(addr % 256), U8(Shr(addr, 8)) >>

write_prebuf(size, addr) ==
    << OPCODE_WRITE >>
        \o (IF size > 3 THEN << U8(Shr(addr, 24)) >> ELSE << >>)
        \o (IF size > 2 THEN << U8(Shr(addr, 16)) >> ELSE << >>)
        \o << U8(Shr(addr, 8)), U8(addr % 256) >>

read8_buffer(size, addr) ==
    << OPCODE_READ >>
        \o (IF size > 3 THEN << U8(Shr(addr, 24)) >> ELSE << >>)
        \o (IF size > 2 THEN << U8(Shr(addr, 16)) >> ELSE << >>)
        \o << U8(Shr(addr, 8)), U8(addr % 256) >>

\* read's buffer with the third address byte sent from size 2 on
read_buffer_from2(size, addr) ==
    << OPCODE_READ >>
        \o (IF size > 3 THEN << U8(Shr(addr, 24)) >> ELSE << >>)
        \o (IF size >= 2 THEN << U8(Shr(addr, 16)) >> ELSE << >>)
        \o << U8(Shr(addr, 8)), U8(addr % 256) >>

read_buffer(size, addr) ==
    << OPCODE_READ >>
        \o (IF size > 3 THEN << U8(Shr(addr, 24)) >> ELSE << >>)
        \o (IF size > 2 THEN << U8(Shr(addr, 16)) >> ELSE << >>)
        \o << U8(Shr(addr, 8)), U8(addr % 256) >>

\* getDeviceID with one fixed layout: no look at the continuation code
DeviceIDFixedLayout(resp, failAt, pre) ==
    LET t == spi_write_then_read(<< OPCODE_RDID >>, resp, failAt)
        a == t.rbuf
    IN  IF ~t.ret
        THEN [ ret |-> FALSE, manufacturerID |-> pre[1], productID |-> pre[2],
               bus |-> t.bus ]
        ELSE [ ret |-> TRUE, manufacturerID |-> a[1],
               productID |-> (a[2] * 256 + a[3]) % 65536, bus |-> t.bus ]

\* getDeviceID as a function: resp is what the chip answers, failAt where the
\* transfer fails, pre what *manufacturerID and *productID held before
DeviceID(resp, failAt, pre) ==
    LET t == spi_write_then_read(<< OPCODE_RDID >>, resp, failAt)
        a == t.rbuf
    IN  IF ~t.ret
        THEN [ ret |-> FALSE, manufacturerID |-> pre[1], productID |-> pre[2],
               bus |-> t.bus ]
        ELSE IF a[2] = \h7F
        THEN [ ret |-> TRUE, manufacturerID |-> a[1],
               productID |-> (a[3] * 256 + a[4]) % 65536, bus |-> t.bus ]
        ELSE [ ret |-> TRUE, manufacturerID |-> a[1],
               productID |-> (a[2] * 256 + a[3]) % 65536, bus |-> t.bus ]

\* bool getDeviceID(uint8_t *manufacturerID, uint16_t *productID)
getDeviceID(resp, failAt, pre) ==
    \E id \in { DeviceID(resp, failAt, pre) } :
        /\ Called(OpPre("getDeviceID", 0, pre,
                        << id.manufacturerID, id.productID >>, id.ret),
                  id.bus)
        /\ DriverUnchanged

\* the choice with a 4-byte address for the parts above 256 KiB
AddressSizeForFourBytes(fram_size) ==
    IF fram_size > 256 * 1024 THEN 4 ELSE IF fram_size > 64 * 1024 THEN 3 ELSE 2

\* the choice with the threshold one table step too high
AddressSizeForAbove128K(fram_size) == IF fram_size > 128 * 1024 THEN 3 ELSE 2

\* begin's choice of the address size: 3 bytes above 64 KiB, 2 otherwise
AddressSizeFor(fram_size) == IF fram_size > 64 * 1024 THEN 3 ELSE 2

\* begin that runs init() again when the device is not in the table
beginReinit(nAddressSize, busOk, resp, failAt, garbage) ==
    IF ~busOk
    THEN /\ Called(Op("begin", nAddressSize, << >>, FALSE), << >>)
         /\ DriverUnchanged
    ELSE \E id \in { DeviceID(resp, failAt, garbage) } :
         \E idx \in { get_supported_idx(id.manufacturerID, id.productID) } :
             /\ dev_idx' = idx
             /\ IF idx = -1
                THEN /\ nAddressSizeBytes' = 0
                     /\ Called(Op("begin", nAddressSize, << >>, FALSE), id.bus)
                ELSE /\ nAddressSizeBytes' = AddressSizeFor(device(idx).size)
                     /\ Called(Op("begin", nAddressSize, << >>, TRUE), id.bus)

\* bool begin(uint8_t nAddressSizeBytes): busOk is what spi_dev->begin()
\* returns; manufID and prodID are uninitialized locals (garbage) that
\* getDeviceID overwrites only when its transfer succeeds, and its result is
\* not looked at
begin(nAddressSize, busOk, resp, failAt, garbage) ==
    IF ~busOk
    THEN /\ Called(Op("begin", nAddressSize, << >>, FALSE), << >>)
         /\ DriverUnchanged
    ELSE \E id \in { DeviceID(resp, failAt, garbage) } :
         \E idx \in { get_supported_idx(id.manufacturerID, id.productID) } :
             /\ dev_idx' = idx
             /\ IF idx = -1
                THEN /\ UNCHANGED nAddressSizeBytes
                     /\ Called(Op("begin", nAddressSize, << >>, FALSE), id.bus)
                ELSE /\ nAddressSizeBytes' = AddressSizeFor(device(idx).size)
                     /\ Called(Op("begin", nAddressSize, << >>, TRUE), id.bus)

\* bool writeEnable(bool enable)
writeEnable(enable, failAt) ==
    LET cmd == IF enable THEN OPCODE_WREN ELSE OPCODE_WRDI
        t == spi_write(<< cmd >>, << >>, failAt)
    IN  /\ Called(Op("writeEnable", IF enable THEN 1 ELSE 0, << >>, t.ret), t.bus)
        /\ DriverUnchanged

\* bool write8(uint32_t addr, uint8_t value)
write8(addr, value, failAt) ==
    LET t == spi_write(write8_buffer(nAddressSizeBytes, addr, value), << >>, failAt)
    IN  /\ Called(Op("write8", addr, << value >>, t.ret), t.bus)
        /\ DriverUnchanged

\* bool write(uint32_t addr, const uint8_t *values, size_t count)
write(addr, values, failAt) ==
    LET t == spi_write(values, write_prebuf(nAddressSizeBytes, addr), failAt)
    IN  /\ Called(Op("write", addr, values, t.ret), t.bus)
        /\ DriverUnchanged

\* uint8_t read8(uint32_t addr): val is an uninitialized local (garbage)
\* that the transfer overwrites when it succeeds; lastOp.data is <<val>>
read8(addr, resp, failAt, garbage) ==
    LET t == spi_write_then_read(read8_buffer(nAddressSizeBytes, addr), << resp >>, failAt)
        val == IF t.ret THEN t.rbuf[1] ELSE garbage
    IN  /\ Called(Op("read8", addr, << val >>, t.ret), t.bus)
        /\ DriverUnchanged

\* bool read(uint32_t addr, uint8_t *values, size_t count): count is
\* Len(resp); lastOp.data is what arrived in values
read(addr, resp, failAt) ==
    LET t == spi_write_then_read(read_buffer(nAddressSizeBytes, addr), resp, failAt)
    IN  /\ Called(Op("read", addr, t.rbuf, t.ret), t.bus)
        /\ DriverUnchanged

\* uint8_t getStatusRegister()
getStatusRegister(resp, failAt, garbage) ==
    LET t == spi_write_then_read(<< OPCODE_RDSR >>, << resp >>, failAt)
        val == IF t.ret THEN t.rbuf[1] ELSE garbage
    IN  /\ Called(Op("getStatusRegister", 0, << val >>, t.ret), t.bus)
        /\ DriverUnchanged

\* bool setStatusRegister(uint8_t value)
setStatusRegister(value, failAt) ==
    LET t == spi_write(<< OPCODE_WRSR, value >>, << >>, failAt)
    IN  /\ Called(Op("setStatusRegister", value, << >>, t.ret), t.bus)
        /\ DriverUnchanged

\* void setAddressSize(uint8_t nAddressSize)
setAddressSize(nAddressSize) ==
    /\ nAddressSizeBytes' = nAddressSize
    /\ UNCHANGED dev_idx
    /\ Called(Op("setAddressSize", nAddressSize, << >>, TRUE), << >>)

\* the guard without its look at support_sleep
NoSleepOnlyUnmatched == dev_idx = -1

\* _dev_idx == -1 || !_supported_devices[_dev_idx].support_sleep
NoSleep == dev_idx = -1 \/ ~device(dev_idx).support_sleep

\* bool enterSleep(void)
enterSleep(failAt) ==
    IF NoSleep
    THEN /\ Called(Op("enterSleep", 0, << >>, FALSE), << >>)
         /\ DriverUnchanged
    ELSE LET t == spi_write(<< OPCODE_SLEEP >>, << >>, failAt)
         IN  /\ Called(Op("enterSleep", 0, << >>, t.ret), t.bus)
             /\ DriverUnchanged

\* a wake-up that returns with select still held
exitSleepEventsNoRelease(idx) ==
    << AssertCS, Delay(300), Delay(100) >>

\* the events of a wake-up: select held for 300 us, released, 100 us, and
\* 50 us more when manufID is 0x04 and prodID is 0x0B
exitSleepEvents(idx) ==
    << AssertCS, Delay(300), DeassertCS, Delay(100) >>
        \o (IF device(idx).manufID = \h04 /\ device(idx).prodID = \h0B
            THEN << Delay(50) >> ELSE << >>)

\* bool exitSleep(void)
exitSleep ==
    IF NoSleep
    THEN /\ Called(Op("exitSleep", 0, << >>, FALSE), << >>)
         /\ DriverUnchanged
    ELSE /\ Called(Op("exitSleep", 0, << >>, TRUE), exitSleepEvents(dev_idx))
         /\ DriverUnchanged

-----------------------------------------------------------------------------
(* The driver alone: what the chip answers is any of the inputs.           *)

\* no cell written yet
NoCells == [c \in {} |-> 0]
\* the last call came after no completed block write
NoWrite == [addr |-> -1, data |-> << >>]

ChipIdle == UNCHANGED << mem, wel, latched, followed >>

\* an input that the call reads only under cond is drawn from S under cond,
\* and is one fixed element of S otherwise
Only(cond, S) == IF cond THEN S ELSE { CHOOSE x \in S : TRUE }

Init ==
    /\ init
    /\ lastOp = Op("init", 0, << >>, TRUE)
    /\ bus = << >>
    /\ csAsserted = FALSE
    /\ mem = NoCells
    /\ wel = FALSE
    /\ latched = FALSE
    /\ followed = NoWrite

Next ==
    \/ \E n \in {2, 3}, busOk \in BOOLEAN :
         \E f \in Only(busOk, FailPoints) :
           \E resp \in Only(busOk /\ ~Fails(5, f), IdResponses) :
             \E g \in Only(busOk /\ Fails(5, f), StackGarbage) :
               begin(n, busOk, resp, f, g) /\ ChipIdle
    \/ \E f \in FailPoints :
         \E resp \in Only(~Fails(5, f), IdResponses) :
           \E g \in Only(Fails(5, f), StackGarbage) :
             getDeviceID(resp, f, g) /\ ChipIdle
    \/ \E enable \in BOOLEAN, f \in FailPoints :
         writeEnable(enable, f) /\ ChipIdle
    \/ \E addr \in Addrs, value \in PayloadBytes, f \in FailPoints :
         write8(addr, value, f) /\ ChipIdle
    \/ \E addr \in Addrs, values \in Payloads, f \in FailPoints :
         write(addr, values, f) /\ ChipIdle
    \/ \E addr \in Addrs, f \in FailPoints :
         \E resp \in Only(f = -1, PayloadBytes) :
           \E g \in Only(f # -1, GarbageBytes) :
             read8(addr, resp, f, g) /\ ChipIdle
    \/ \E addr \in Addrs, resp \in Payloads, f \in FailPoints :
         read(addr, resp, f) /\ ChipIdle
    \/ \E f \in FailPoints :
         \E resp \in Only(~Fails(2, f), PayloadBytes) :
           \E g \in Only(Fails(2, f), GarbageBytes) :
             getStatusRegister(resp, f, g) /\ ChipIdle
    \/ \E value \in PayloadBytes, f \in FailPoints :
         setStatusRegister(value, f) /\ ChipIdle
    \/ \E n \in AddressSizes :
         setAddressSize(n) /\ ChipIdle
    \/ \E f \in FailPoints :
         enterSleep(f) /\ ChipIdle
    \/ exitSleep /\ ChipIdle

Spec == Init /\ [][Next]_vars

-----------------------------------------------------------------------------
(* Reading the bus events of a call.                                       *)

IsTx(ev) == ev.e = "tx"
IsRx(ev) == ev.e = "rx"
IsDelay(ev) == ev.e = "delay"
Values(events) == [i \in 1..Len(events) |-> events[i].b]
TxBytes(events) == Values(SelectSeq(events, IsTx))
RxBytes(events) == Values(SelectSeq(events, IsRx))

RECURSIVE Sum(_)
Sum(s) == IF s = << >> THEN 0 ELSE Head(s) + Sum(Tail(s))

\* all the time a call spent in delayMicroseconds
TotalDelay(events) == Sum(Values(SelectSeq(events, IsDelay)))

\* the descriptors, by index
Descriptors == 0..(NumDevices - 1)

-----------------------------------------------------------------------------
(* The driver with a chip at the other end of the bus: a part of the table *)
(* that begin has matched, with its cells and its write-enable latch.      *)

\* the chip takes 3 address bytes when it holds more than 64 KiB
ChipAddressBytes == IF device(dev_idx).size > 65536 THEN 3 ELSE 2

\* the address the chip reads from the bytes after the opcode
RECURSIVE FromBigEndian(_)
FromBigEndian(bytes) ==
    IF bytes = << >> THEN 0
    ELSE FromBigEndian(SubSeq(bytes, 1, Len(bytes) - 1)) * 256 + bytes[Len(bytes)]

ChipAddress(tx) ==
    FromBigEndian(SubSeq(tx, 2, 1 + ChipAddressBytes)) % device(dev_idx).size

ChipCell(a, i) == (a + i) % device(dev_idx).size

Peek(cells, c) == IF c \in DOMAIN cells THEN cells[c] ELSE 0

\* what the chip sends back to a READ frame, count bytes of it
ChipAnswer(header, count) ==
    [i \in 1..count |-> Peek(mem, ChipCell(ChipAddress(header), i - 1))]

\* the bytes of a WRITE transaction after opcode and address
ChipPayload(tx) == SubSeq(tx, 2 + ChipAddressBytes, Len(tx))

\* the cells after a transaction that sent tx
ChipCellsAfter(tx) ==
    IF tx # << >> /\ tx[1] = OPCODE_WRITE /\ wel /\ Len(tx) > 1 + ChipAddressBytes
    THEN LET a == ChipAddress(tx)
             data == ChipPayload(tx)
             hit == { ChipCell(a, i - 1) : i \in 1..Len(data) }
         IN  [c \in DOMAIN mem \cup hit |->
                IF c \in hit
                THEN data[CHOOSE i \in 1..Len(data) :
                            /\ ChipCell(a, i - 1) = c
                            /\ \A j \in 1..Len(data) : ChipCell(a, j - 1) = c => j <= i]
                ELSE mem[c]]
    ELSE mem

\* the latch after a transaction that sent tx: WREN sets it, WRDI and a
\* WRITE clear it
ChipLatchAfter(tx) ==
    IF tx = << >> THEN wel
    ELSE IF tx[1] = OPCODE_WREN THEN TRUE
    ELSE IF tx[1] \in {OPCODE_WRDI, OPCODE_WRITE} THEN FALSE
    ELSE wel

\* the chip's side of a call
ChipReacts ==
    /\ mem' = ChipCellsAfter(TxBytes(bus'))
    /\ wel' = ChipLatchAfter(TxBytes(bus'))
    /\ latched' = wel
    /\ followed' = IF lastOp.op = "write" /\ lastOp.ret /\ latched
                   THEN [addr |-> lastOp.addr, data |-> lastOp.data]
                   ELSE NoWrite

\* the addresses of the round trips
RoundTripAddrs == { \h1234, \h11234 }

\* the state after begin has matched an 8 KiB and a 128 KiB part
InitRT ==
    /\ dev_idx \in {1, 4}
    /\ nAddressSizeBytes = AddressSizeFor(device(dev_idx).size)
    /\ lastOp = Op("begin", 2, << >>, TRUE)
    /\ bus = DeviceID(IdResponse(dev_idx), -1, << 0, 0 >>).bus
    /\ csAsserted = FALSE
    /\ mem = NoCells
    /\ wel = FALSE
    /\ latched = FALSE
    /\ followed = NoWrite

NextRT ==
    \/ \E enable \in BOOLEAN, f \in FailPoints :
         writeEnable(enable, f) /\ ChipReacts
    \/ \E addr \in RoundTripAddrs, f \in FailPoints :
         write8(addr, \h06, f) /\ ChipReacts
    \/ \E addr \in RoundTripAddrs, values \in Payloads, f \in FailPoints :
         write(addr, values, f) /\ ChipReacts
    \/ \E addr \in RoundTripAddrs, f \in FailPoints :
         \E g \in Only(f # -1, GarbageBytes) :
           read8(addr, ChipAnswer(read8_buffer(nAddressSizeBytes, addr), 1)[1], f, g)
             /\ ChipReacts
    \/ \E addr \in RoundTripAddrs, count \in 0..MaxCount, f \in FailPoints :
         read(addr, ChipAnswer(read_buffer(nAddressSizeBytes, addr), count), f)
           /\ ChipReacts

SpecRT == InitRT /\ [][NextRT]_vars

-----------------------------------------------------------------------------
(* C1: waking a matched sleep-capable device delays 450 us in all when the *)
(* descriptor is the manufacturer 0x04 part whose product ID ends in 0x0B  *)
(* (0x04/0x490B, MB85RS4MTY), and 400 us for every other descriptor.       *)
(* The code compares the whole product ID with 0x0B, which no descriptor   *)
(* has, so the MB85RS4MTY gets 400 us: TLC finds this violated.            *)

C1_WakeDelayPerDevice ==
    (lastOp.op = "exitSleep" /\ lastOp.ret) =>
        TotalDelay(bus) =
            (IF device(dev_idx).manufID = \h04 /\ device(dev_idx).prodID % 256 = \h0B
             THEN 450 ELSE 400)

-----------------------------------------------------------------------------
(* C2: with no matched device, or one whose descriptor has                 *)
(* support_sleep = false, enterSleep and exitSleep return false, put       *)
(* nothing on the bus (no select, no byte, no delay) and leave the address *)
(* size and the matched device as they were.                               *)

SleepUnsupported ==
    \/ dev_idx = -1
    \/ \E i \in Descriptors : dev_idx = i /\ device(i).support_sleep = FALSE

C2_UnsupportedSleepIsInert ==
    [][ (lastOp'.op \in {"enterSleep", "exitSleep"} /\ SleepUnsupported) =>
            /\ lastOp'.ret = FALSE
            /\ bus' = << >>
            /\ csAsserted' = csAsserted
            /\ nAddressSizeBytes' = nAddressSizeBytes
            /\ dev_idx' = dev_idx ]_vars

\* exitSleep refused on a matched device that cannot sleep
C2_Witness ==
    /\ lastOp.op = "exitSleep"
    /\ lastOp.ret = FALSE
    /\ bus = << >>
    /\ dev_idx # -1
    /\ device(dev_idx).support_sleep = FALSE

-----------------------------------------------------------------------------
(* C3: when the bus begin succeeds and the device reports the IDs of       *)
(* descriptor d, begin returns true, records d's index and sets the        *)
(* address size to 2 if d.size <= 65536 and to 3 if it is larger,          *)
(* whatever argument begin was given and whatever setAddressSize set       *)
(* before.                                                                 *)

\* what four ID bytes say, by the continuation-code rule
ReportedManuf(a) == a[1]
ReportedProd(a) == IF a[2] = 127 THEN a[3] * 256 + a[4] ELSE a[2] * 256 + a[3]

\* begin read four ID bytes and they are those of descriptor i
BeginReported(i) ==
    /\ lastOp.op = "begin"
    /\ Len(RxBytes(bus)) = 4
    /\ ReportedManuf(RxBytes(bus)) = device(i).manufID
    /\ ReportedProd(RxBytes(bus)) = device(i).prodID

C3_BeginAutoDetects ==
    \A i \in Descriptors :
        BeginReported(i) =>
            /\ lastOp.ret = TRUE
            /\ dev_idx = i
            /\ (device(i).size <= 65536 => nAddressSizeBytes = 2)
            /\ (device(i).size > 65536 => nAddressSizeBytes = 3)

\* begin(2) on the 128 KiB MB85RS1MT ends with a 3-byte address
C3_Witness ==
    /\ BeginReported(4)
    /\ lastOp.addr = 2
    /\ lastOp.ret = TRUE
    /\ nAddressSizeBytes = 3

-----------------------------------------------------------------------------
(* C4: after any sequence of public calls the address size is 0 (unset), 2 *)
(* or 3, never 4, and no read or write frame carries 4 address bytes.      *)
(* setAddressSize stores its argument unchecked and the four frame         *)
(* builders send a fourth address byte when the size is above 3, so the    *)
(* statement as made is violated after setAddressSize(4).                  *)

MemoryOps == {"write8", "write", "read8", "read"}
WriteOps == {"write8", "write"}

\* the bytes a completed read or write sent after the opcode and before
\* the payload
AddressBytesSent ==
    Len(TxBytes(bus)) - 1 - (IF lastOp.op \in WriteOps THEN Len(lastOp.data) ELSE 0)

MemoryOpDone == lastOp.op \in MemoryOps /\ lastOp.ret

-----------------------------------------------------------------------------
(* C5: whenever begin fails because the ID read from the bus is not in the *)
(* table, afterwards no device is matched (_dev_idx == -1) and the address *)
(* size is unset (0), whatever was called before; and getStatusRegister    *)
(* and setStatusRegister still send their RDSR and WRSR commands.          *)
(* begin does not touch the address size on that path, so a size set by an *)
(* earlier begin or setAddressSize stays: the statement is violated.       *)

\* begin read four ID bytes and returned false
BeginRejected(op, events) ==
    op.op = "begin" /\ op.ret = FALSE /\ Len(RxBytes(events)) = 4

StatusRegisterWorks ==
    /\ (lastOp.op = "getStatusRegister" /\ lastOp.ret) =>
            /\ TxBytes(bus) = << 5 >>
            /\ RxBytes(bus) = lastOp.data
    /\ (lastOp.op = "setStatusRegister" /\ lastOp.ret) =>
            TxBytes(bus) = << 1, lastOp.addr >>

C5_RejectedBeginUnsetsAll ==
    /\ BeginRejected(lastOp, bus) => (dev_idx = -1 /\ nAddressSizeBytes = 0)
    /\ dev_idx = -1 => StatusRegisterWorks

(* C5 as amended: whenever begin fails because the ID read from the bus is *)
(* not in the table, afterwards no device is matched and the address size  *)
(* is what it was before the call (0 only if it was 0); the two status     *)
(* register calls still send RDSR and WRSR.                                *)

C5_RejectedBeginKeepsAddressSize ==
    /\ [][ BeginRejected(lastOp', bus') =>
               (dev_idx' = -1 /\ nAddressSizeBytes' = nAddressSizeBytes) ]_vars
    /\ [](dev_idx = -1 => StatusRegisterWorks)

\* a rejected begin after which the address size is still 3
C5_Witness ==
    /\ BeginRejected(lastOp, bus)
    /\ dev_idx = -1
    /\ nAddressSizeBytes = 3

-----------------------------------------------------------------------------
(* C6: a begin whose ID transfer fails returns false and leaves the        *)
(* matched device and the address size as they were; so does a begin whose *)
(* bus-level begin fails, which reads no ID at all.                        *)
(* begin ignores what getDeviceID returns and looks up manufID and prodID, *)
(* which nothing has written: TLC finds this violated.                     *)

C6_FailedIdTransferReported ==
    [][ (lastOp'.op = "begin" /\ Len(RxBytes(bus')) < 4) =>
            /\ lastOp'.ret = FALSE
            /\ dev_idx' = dev_idx
            /\ nAddressSizeBytes' = nAddressSizeBytes ]_vars

-----------------------------------------------------------------------------
(* C7: with an address size w of 2 or 3, write8, write, read8 and read     *)
(* send the opcode (WRITE = 2, READ = 3) and then exactly w address bytes, *)
(* the low 8*w bits of the address, most significant byte first; higher    *)
(* address bits are dropped without an error.                              *)

RECURSIVE Pow(_, _)
Pow(b, n) == IF n = 0 THEN 1 ELSE b * Pow(b, n - 1)

BigEndian(n, w) == [i \in 1..w |-> (n \div Pow(256, w - i)) % 256]

IsPrefix(s, t) == Len(s) <= Len(t) /\ \A i \in 1..Len(s) : s[i] = t[i]

ExpectedFrame ==
    << IF lastOp.op \in WriteOps THEN 2 ELSE 3 >>
        \o BigEndian(lastOp.addr % Pow(256, nAddressSizeBytes), nAddressSizeBytes)
        \o (IF lastOp.op \in WriteOps THEN lastOp.data ELSE << >>)

C7_FrameHeader ==
    (lastOp.op \in MemoryOps /\ nAddressSizeBytes \in {2, 3}) =>
        /\ IsPrefix(TxBytes(bus), ExpectedFrame)
        /\ lastOp.ret => TxBytes(bus) = ExpectedFrame
        /\ (lastOp.ret /\ lastOp.op = "read" /\ nAddressSizeBytes = 2
                /\ lastOp.addr = 4660) => TxBytes(bus) = << 3, 18, 52 >>
        /\ (lastOp.ret /\ lastOp.op = "read" /\ nAddressSizeBytes = 3
                /\ lastOp.addr = 1193046) => TxBytes(bus) = << 3, 18, 52, 86 >>

\* a read of 0x7F123456 with 3 address bytes: the top byte is dropped
C7_Witness ==
    /\ lastOp.op = "read"
    /\ lastOp.ret
    /\ nAddressSizeBytes = 3
    /\ lastOp.addr > 16777215
    /\ TxBytes(bus) = << 3, 18, 52, 86 >>

-----------------------------------------------------------------------------
(* C8: getDeviceID sends RDID (0b10011111) and reads exactly 4 bytes       *)
(* a[0..3]; the manufacturer ID is a[0], the product ID is (a[2]<<8)|a[3]  *)
(* when a[1] is 0x7F and (a[1]<<8)|a[2] otherwise; when the transfer fails *)
(* it returns false and leaves the two outputs as they were.               *)

C8_DeviceIdDecoding ==
    lastOp.op = "getDeviceID" =>
        /\ IsPrefix(TxBytes(bus), << 159 >>)
        /\ lastOp.ret =>
              /\ TxBytes(bus) = << 159 >>
              /\ Len(RxBytes(bus)) = 4
              /\ lastOp.data = << ReportedManuf(RxBytes(bus)), ReportedProd(RxBytes(bus)) >>
        /\ ~lastOp.ret =>
              /\ Len(RxBytes(bus)) < 4
              /\ lastOp.data = lastOp.pre
        /\ RxBytes(bus) = << 4, 127, 3, 2 >> => lastOp.data = << 4, 770 >>
        /\ RxBytes(bus) = << 174, 131, 5, 0 >> => lastOp.data = << 174, 33541 >>

\* the Lapis part, which sends no continuation code
C8_Witness ==
    /\ lastOp.op = "getDeviceID"
    /\ lastOp.ret
    /\ RxBytes(bus) = << 174, 131, 5, 0 >>
    /\ lastOp.data = << 174, 33541 >>

-----------------------------------------------------------------------------
(* C9: every call that touches the bus is one transaction: select is       *)
(* asserted before the first byte, stays asserted over opcode, address and *)
(* payload, and is released exactly once on every way out, a failed        *)
(* transfer included; between calls select is released.                    *)

Count(events, kind) == Cardinality({ i \in 1..Len(events) : events[i].e = kind })

OneTransaction(events) ==
    /\ Count(events, "assert") = 1
    /\ Count(events, "release") = 1
    /\ events[1].e = "assert"
    /\ \A i \in 1..Len(events) :
          events[i].e \in {"tx", "rx"} =>
              \E j \in (i + 1)..Len(events) : events[j].e = "release"

TransferOps ==
    { "write8", "write", "read8", "read", "getDeviceID", "getStatusRegister",
      "setStatusRegister", "writeEnable" }

C9_ScopedTransaction ==
    /\ csAsserted = FALSE
    /\ bus # << >> => OneTransaction(bus)
    /\ lastOp.op \in TransferOps => bus # << >>
    /\ (lastOp.op \in {"enterSleep", "exitSleep"} /\ lastOp.ret) => bus # << >>
    /\ (lastOp.op \in WriteOps /\ lastOp.ret) =>
            Len(TxBytes(bus)) >= 3 + Len(lastOp.data)

\* a block write that failed at its fifth byte and still released select
C9_Witness ==
    /\ lastOp.op = "write"
    /\ lastOp.ret = FALSE
    /\ Len(TxBytes(bus)) = 4
    /\ bus[Len(bus)].e = "release"
    /\ csAsserted = FALSE

-----------------------------------------------------------------------------
(* C10: with an address size of 2 or 3 and an address within the address   *)
(* range, a block write made while the chip's write-enable latch is set    *)
(* (by an earlier writeEnable(true) of the caller), followed at once by a  *)
(* block read of the same address and length, gives back the bytes written *)
(* in order.  write8 and write send one transaction that starts with       *)
(* WRITE; they never send WREN themselves.                                 *)

RoundTripDone ==
    /\ followed.addr >= 0
    /\ followed.addr < Pow(256, nAddressSizeBytes)
    /\ nAddressSizeBytes \in {2, 3}
    /\ lastOp.op = "read"
    /\ lastOp.ret
    /\ lastOp.addr = followed.addr
    /\ Len(RxBytes(bus)) = Len(followed.data)

C10_RoundTrip ==
    /\ RoundTripDone => lastOp.data = followed.data
    /\ lastOp.op \in WriteOps =>
          /\ Count(bus, "assert") = 1
          /\ Count(bus, "release") = 1
          /\ TxBytes(bus) # << >>
          /\ TxBytes(bus)[1] = 2

\* two bytes written to and read back from a 3-byte address
C10_Witness ==
    /\ RoundTripDone
    /\ nAddressSizeBytes = 3
    /\ followed.addr > 65535
    /\ followed.data = << 165, 6 >>
    /\ lastOp.data = << 165, 6 >>

=============================================================================
